---------------------------- MODULE Spec2Model ----------------------------
(***************************************************************************)
(* Verification model of the naia server handshake manager                 *)
(* (server/src/connection/handshake_manager.rs) together with the part of  *)
(* the server that dispatches handshake packets to it, of the              *)
(* unordered-unreliable message receiver                                   *)
(* (shared/src/messages/channels/receivers/unordered_unreliable_receiver.rs)*)
(* of the HTTP session server (socket/server/src/session.rs), and of the   *)
(* identity receiver and the packet receiver of the wasm_bindgen client    *)
(* socket (socket/client/src/backends/wasm_bindgen).  Each component has   *)
(* its own specification; the others stand still in it.                    *)
(*                                                                         *)
(* HMAC-SHA256 is modelled as an ideal MAC: hmac_sign(k, m) is an          *)
(* injective encoding of the pair (k, m) as a byte string, verification    *)
(* recomputes the tag and compares it, as ring::hmac::verify does, and a   *)
(* digest under the instance's key is known outside the server only once   *)
(* the instance has sent it in a challenge response (variable minted).     *)
(***************************************************************************)
EXTENDS Integers, Sequences, FiniteSets, TLC

(***************************************************************************)
(* Bounds of the model.                                                    *)
(***************************************************************************)
\* number of distinct client timestamps
NumTimestamps == 2
\* capacity of the timestamp -> digest cache (CacheMap::with_capacity(64) in
\* the source, scaled down so that eviction happens within NumTimestamps)
CacheCapacity == 1
\* longest chunk, in bits, a packet carries for the channel
MaxChunkBits == 5
\* number of handles (the receiver and its clones) of a client receiver
NumClones == 2
\* number of identity tokens the data channel sends
MaxSends == 3
\* number of payloads the data channel pushes
MaxPushes == 3
\* largest Content-Length a request announces
MaxContentLength == 2
\* longest request body, in bytes
MaxBodyLen == 3

Timestamps == {1700000000 + 257 * i : i \in 0..(NumTimestamps - 1)}
\* 10.0.0.2 is a client, 10.0.0.99 another party (the spoofer of the
\* spec's scenario 5)
Addresses == {"10.0.0.2", "10.0.0.99"}
\* the values hmac::Key::generate can produce
Keys == {1, 2}

NoAddress == "none"
\* Err(SerdeErr) of a read
SerdeErr == [ok |-> FALSE, value |-> 0, rest |-> <<>>]

(***************************************************************************)
(* Bit codec (naia_serde), at byte granularity.                            *)
(***************************************************************************)
\* t >> (8 * n)
RECURSIVE ShiftRightBytes(_, _)
ShiftRightBytes(t, n) == IF n = 0 THEN t ELSE ShiftRightBytes(t \div 256, n - 1)

\* u64::to_le_bytes (the timestamps of the model are below 2^31)
to_le_bytes(t) == [i \in 1..8 |-> ShiftRightBytes(t, i - 1) % 256]

from_le_bytes(b) ==
    b[1] + 256 * (b[2] + 256 * (b[3] + 256 * (b[4] + 256 * (b[5]
         + 256 * (b[6] + 256 * (b[7] + 256 * b[8]))))))

\* <u64 as Serde>::ser
ser_u64(t) == to_le_bytes(t)
\* <Vec<u8> as Serde>::ser: length prefix, then the bytes
ser_bytes(v) == <<Len(v)>> \o v

Drop(s, n) == SubSeq(s, n + 1, Len(s))

\* <u64 as Serde>::de: the value and the rest of the reader, or SerdeErr
de_u64(reader) ==
    IF Len(reader) < 8 THEN SerdeErr
    ELSE [ok |-> TRUE, value |-> from_le_bytes(SubSeq(reader, 1, 8)),
          rest |-> Drop(reader, 8)]

\* <Vec<u8> as Serde>::de
de_bytes(reader) ==
    IF Len(reader) < 1 THEN SerdeErr
    ELSE IF Len(reader) - 1 < reader[1] THEN SerdeErr
    ELSE [ok |-> TRUE, value |-> SubSeq(reader, 2, 1 + reader[1]),
          rest |-> Drop(reader, 1 + reader[1])]

IsErr(r) == ~r.ok

(***************************************************************************)
(* ring::hmac as an ideal MAC.                                             *)
(***************************************************************************)
hmac_sign(key, msg) == <<key>> \o msg
hmac_verify(key, msg, tag) == tag = hmac_sign(key, msg)

(***************************************************************************)
(* StandardHeader::new(packet_type, 0, 0, 0) serialised into a new writer, *)
(* followed by the body written after it.                                  *)
(***************************************************************************)
StandardHeader(packet_type) ==
    [packet_type |-> packet_type, local_packet_index |-> 0,
     last_remote_packet_index |-> 0, ack_field |-> 0]

BitWriter(packet_type, body) ==
    [packet_type |-> packet_type, header |-> StandardHeader(packet_type),
     body |-> body]

\* no packet is written
NoResponse == BitWriter("None", <<>>)

(***************************************************************************)
(* CacheMap<Timestamp, Vec<u8>>: a bounded map that evicts its oldest      *)
(* entry when full.  The entries are kept in insertion order.              *)
(***************************************************************************)
CacheMap_new == <<>>

CacheMap_contains_key(cache, k) == \E i \in 1..Len(cache) : cache[i].key = k

CacheMap_get_unchecked(cache, k) ==
    cache[CHOOSE i \in 1..Len(cache) : cache[i].key = k].value

CacheMap_insert(cache, k, v) ==
    LET room == IF Len(cache) >= CacheCapacity THEN Tail(cache) ELSE cache
    IN  Append(room, [key |-> k, value |-> v])

CacheMap_keys(cache) == {cache[i].key : i \in 1..Len(cache)}

VARIABLES
    connection_hash_key,        \* HandshakeManager.connection_hash_key
    address_to_timestamp_map,   \* HandshakeManager.address_to_timestamp_map
    timestamp_digest_map,       \* HandshakeManager.timestamp_digest_map
    connections,                \* addresses the server holds a Connection for
    minted,                     \* timestamps whose digest the instance has sent
    last,                       \* the last call: operation, arguments, results
    retired                     \* keys of the instances a restart has replaced

hm_vars == <<connection_hash_key, address_to_timestamp_map, timestamp_digest_map>>
VARIABLES
    incoming_messages,          \* UnorderedUnreliableReceiver.incoming_messages
    entity_waitlist,            \* the EntityWaitlist passed to the receiver
    local_entities,             \* the entities that exist locally
    panicked,                   \* the receiver's thread has panicked
    arrived,                    \* the messages read_message has decoded
    delivered,                  \* the messages receive_messages has returned
    rlast                       \* the last receiver call and what it returned

receiver_vars == <<incoming_messages, entity_waitlist, local_entities, panicked,
                   arrived, delivered, rlast>>

VARIABLES
    connection                  \* the last connection serve has handled

VARIABLES
    id_cell,                    \* IdentityReceiverImpl.id_cell, shared by clones
    id_sent,                    \* the tokens send has stored, in order
    id_received,                \* the tokens receive has returned, in order
    ilast                       \* the last identity receiver call

identity_vars == <<id_cell, id_sent, id_received, ilast>>

VARIABLES
    message_queue,              \* PacketReceiverImpl.message_queue, shared
    last_payload,               \* PacketReceiverImpl.last_payload of each clone
    pushed,                     \* the payloads pushed to the queue, in order
    received_payloads,          \* the payloads receive has returned, in order
    plast                       \* the last packet receiver call

packet_vars == <<message_queue, last_payload, pushed, received_payloads, plast>>
client_vars == <<identity_vars, packet_vars>>

\* the state of the other components
non_handshake_vars == <<receiver_vars, connection, client_vars>>

\* what no handshake step touches
outside_vars == <<retired, non_handshake_vars>>
vars == <<connection_hash_key, address_to_timestamp_map, timestamp_digest_map,
          connections, minted, last, outside_vars>>


(***************************************************************************)
(* Option<Timestamp> and HashMap<SocketAddr, Timestamp>.                    *)
(***************************************************************************)
None == [some |-> FALSE, value |-> 0]
Some(v) == [some |-> TRUE, value |-> v]

HashMap_new == [a \in {} |-> 0]
HashMap_insert(map, k, v) ==
    [a \in (DOMAIN map) \cup {k} |-> IF a = k THEN v ELSE map[a]]
HashMap_remove(map, k) == [a \in (DOMAIN map) \ {k} |-> map[a]]
HashMap_get(map, k) == IF k \in DOMAIN map THEN Some(map[k]) ELSE None

(***************************************************************************)
(* HandshakeManager.  Each method is an operator from the fields it reads   *)
(* and its arguments to its return value and the fields it writes.          *)
(***************************************************************************)

\* timestamp_validate that accepts the digest of any instance's key
timestamp_validate_any_key(key, reader) ==
    LET timestamp_result == de_u64(reader)
    IN  IF IsErr(timestamp_result) THEN None
        ELSE LET timestamp == timestamp_result.value
                 digest_bytes_result == de_bytes(timestamp_result.rest)
             IN  IF IsErr(digest_bytes_result) THEN None
                 ELSE IF \A k \in Keys :
                             ~hmac_verify(k, to_le_bytes(timestamp),
                                          digest_bytes_result.value)
                      THEN None
                      ELSE Some(timestamp)

\* timestamp_validate that verifies the digest over the big-endian bytes
timestamp_validate_to_be_bytes(key, reader) ==
    LET timestamp_result == de_u64(reader)
    IN  IF IsErr(timestamp_result) THEN None
        ELSE LET timestamp == timestamp_result.value
                 digest_bytes_result == de_bytes(timestamp_result.rest)
             IN  IF IsErr(digest_bytes_result) THEN None
                 ELSE IF ~hmac_verify(key, [i \in 1..8 |->
                                 ShiftRightBytes(timestamp, 8 - i) % 256],
                             digest_bytes_result.value)
                      THEN None
                      ELSE Some(timestamp)

\* timestamp_validate without the hmac::verify step
timestamp_validate_unverified(key, reader) ==
    LET timestamp_result == de_u64(reader)
    IN  IF IsErr(timestamp_result) THEN None
        ELSE IF IsErr(de_bytes(timestamp_result.rest)) THEN None
             ELSE Some(timestamp_result.value)

\* fn timestamp_validate(&self, reader) -> Option<Timestamp>
timestamp_validate(key, reader) ==
    LET timestamp_result == de_u64(reader)
    IN  IF IsErr(timestamp_result) THEN None
        ELSE LET timestamp == timestamp_result.value
                 digest_bytes_result == de_bytes(timestamp_result.rest)
             IN  IF IsErr(digest_bytes_result) THEN None
                 ELSE IF ~hmac_verify(key, to_le_bytes(timestamp),
                                      digest_bytes_result.value)
                      THEN None
                      ELSE Some(timestamp)

\* u64::to_be_bytes
to_be_bytes(t) == [i \in 1..8 |-> ShiftRightBytes(t, 8 - i) % 256]

\* write_challenge_response that signs the big-endian bytes
write_challenge_response_to_be_bytes(key, cache, timestamp) ==
    LET cache1 ==
            IF ~CacheMap_contains_key(cache, timestamp)
            THEN CacheMap_insert(cache, timestamp,
                                 hmac_sign(key, to_be_bytes(timestamp)))
            ELSE cache
    IN  [writer |-> BitWriter("ServerChallengeResponse",
                        ser_u64(timestamp)
                        \o ser_bytes(CacheMap_get_unchecked(cache1, timestamp))),
         timestamp_digest_map |-> cache1,
         signed |-> ~CacheMap_contains_key(cache, timestamp)]

\* write_challenge_response without timestamp.ser(&mut writer)
write_challenge_response_no_echo(key, cache, timestamp) ==
    LET cache1 ==
            IF ~CacheMap_contains_key(cache, timestamp)
            THEN CacheMap_insert(cache, timestamp,
                                 hmac_sign(key, to_le_bytes(timestamp)))
            ELSE cache
    IN  [writer |-> BitWriter("ServerChallengeResponse",
                        ser_bytes(CacheMap_get_unchecked(cache1, timestamp))),
         timestamp_digest_map |-> cache1,
         signed |-> ~CacheMap_contains_key(cache, timestamp)]

\* write_challenge_response on a map that never evicts
write_challenge_response_unbounded(key, cache, timestamp) ==
    LET cache1 ==
            IF ~CacheMap_contains_key(cache, timestamp)
            THEN Append(cache, [key |-> timestamp,
                                value |-> hmac_sign(key, to_le_bytes(timestamp))])
            ELSE cache
    IN  [writer |-> BitWriter("ServerChallengeResponse",
                        ser_u64(timestamp)
                        \o ser_bytes(CacheMap_get_unchecked(cache1, timestamp))),
         timestamp_digest_map |-> cache1,
         signed |-> ~CacheMap_contains_key(cache, timestamp)]

\* write_challenge_response without the contains_key test: signs and inserts
\* on every call
write_challenge_response_always_sign(key, cache, timestamp) ==
    LET cache1 == CacheMap_insert(cache, timestamp,
                                  hmac_sign(key, to_le_bytes(timestamp)))
    IN  [writer |-> BitWriter("ServerChallengeResponse",
                        ser_u64(timestamp)
                        \o ser_bytes(CacheMap_get_unchecked(cache1, timestamp))),
         timestamp_digest_map |-> cache1,
         signed |-> TRUE]

\* fn write_challenge_response(&mut self, timestamp) -> BitWriter; signed
\* tells whether the call ran hmac::sign
write_challenge_response(key, cache, timestamp) ==
    LET cache1 ==
            IF ~CacheMap_contains_key(cache, timestamp)
            THEN CacheMap_insert(cache, timestamp,
                                 hmac_sign(key, to_le_bytes(timestamp)))
            ELSE cache
    IN  [writer |-> BitWriter("ServerChallengeResponse",
                        ser_u64(timestamp)
                        \o ser_bytes(CacheMap_get_unchecked(cache1, timestamp))),
         timestamp_digest_map |-> cache1,
         signed |-> ~CacheMap_contains_key(cache, timestamp)]

\* recv_challenge_request with Timestamp::de(reader).unwrap_or_default() in
\* place of the ? operator
recv_challenge_request_unwrap_or_default(key, cache, reader) ==
    LET timestamp == de_u64(reader)
        w == write_challenge_response(key, cache, timestamp.value)
    IN  [ok |-> TRUE, writer |-> w.writer,
         timestamp_digest_map |-> w.timestamp_digest_map,
         signed |-> w.signed]

\* fn recv_challenge_request(&mut self, reader) -> Result<BitWriter, SerdeErr>
recv_challenge_request(key, cache, reader) ==
    LET timestamp == de_u64(reader)
    IN  IF IsErr(timestamp)
        THEN [ok |-> FALSE, writer |-> NoResponse,
              timestamp_digest_map |-> cache, signed |-> FALSE]
        ELSE LET w == write_challenge_response(key, cache, timestamp.value)
             IN  [ok |-> TRUE, writer |-> w.writer,
                  timestamp_digest_map |-> w.timestamp_digest_map,
                  signed |-> w.signed]

\* recv_validate_request that returns Success without the insert
recv_validate_request_no_insert(key, map, address, reader) ==
    LET timestamp == timestamp_validate(key, reader)
    IN  [result |-> IF timestamp.some THEN "Success" ELSE "Invalid",
         address_to_timestamp_map |-> map]

\* recv_validate_request that keeps the timestamps of the map unique: the
\* insert first removes every other address bound to the timestamp
recv_validate_request_unique(key, map, address, reader) ==
    LET timestamp == timestamp_validate(key, reader)
    IN  IF ~timestamp.some
        THEN [result |-> "Invalid", address_to_timestamp_map |-> map]
        ELSE [result |-> "Success",
              address_to_timestamp_map |->
                  [a \in {b \in DOMAIN map : map[b] # timestamp.value}
                         \cup {address} |->
                      IF a = address THEN timestamp.value ELSE map[a]]]

\* recv_validate_request that keeps the timestamp an address is bound to:
\* entry(*address).or_insert(timestamp)
recv_validate_request_or_insert(key, map, address, reader) ==
    LET timestamp == timestamp_validate(key, reader)
    IN  IF ~timestamp.some
        THEN [result |-> "Invalid", address_to_timestamp_map |-> map]
        ELSE [result |-> "Success",
              address_to_timestamp_map |->
                  IF address \in DOMAIN map THEN map
                  ELSE HashMap_insert(map, address, timestamp.value)]

\* recv_validate_request that forgets the address on a failed validate
recv_validate_request_purge(key, map, address, reader) ==
    LET timestamp == timestamp_validate(key, reader)
    IN  IF ~timestamp.some
        THEN [result |-> "Invalid",
              address_to_timestamp_map |-> HashMap_remove(map, address)]
        ELSE [result |-> "Success",
              address_to_timestamp_map |->
                  HashMap_insert(map, address, timestamp.value)]

\* fn recv_validate_request(&mut self, address, reader) -> HandshakeResult
recv_validate_request(key, map, address, reader) ==
    LET timestamp == timestamp_validate(key, reader)
    IN  IF ~timestamp.some
        THEN [result |-> "Invalid", address_to_timestamp_map |-> map]
        ELSE [result |-> "Success",
              address_to_timestamp_map |->
                  HashMap_insert(map, address, timestamp.value)]

\* write_validate_response with the header of the connect response
write_validate_response_connect == BitWriter("ServerConnectResponse", <<>>)

\* fn write_validate_response(&self) -> BitWriter
write_validate_response == BitWriter("ServerValidateResponse", <<>>)

\* fn write_connect_response(&self) -> BitWriter
write_connect_response == BitWriter("ServerConnectResponse", <<>>)

\* fn write_reject_response(&self) -> BitWriter
write_reject_response == BitWriter("ServerRejectResponse", <<>>)

\* verify_disconnect_request that looks for the timestamp under any address
verify_disconnect_request_any_address(key, map, connection_address, reader) ==
    LET new_timestamp == timestamp_validate(key, reader)
    IN  IF new_timestamp.some
        THEN \E a \in DOMAIN map : map[a] = new_timestamp.value
        ELSE FALSE

\* fn verify_disconnect_request(&mut self, connection, reader) -> bool
verify_disconnect_request(key, map, connection_address, reader) ==
    LET new_timestamp == timestamp_validate(key, reader)
    IN  IF new_timestamp.some
        THEN LET old_timestamp == HashMap_get(map, connection_address)
             IN  IF old_timestamp.some
                 THEN old_timestamp.value = new_timestamp.value
                 ELSE FALSE
        ELSE FALSE

\* delete_user that clears the map
delete_user_clear(map, address) == HashMap_new

\* delete_user that removes nothing
delete_user_keep(map, address) == map

\* fn delete_user(&mut self, address)
delete_user(map, address) == HashMap_remove(map, address)

(***************************************************************************)
(* Packets a client (or an attacker) can send.                              *)
(***************************************************************************)
\* challenge request payload: u64 timestamp
ChallengeRequest(t) == ser_u64(t)
\* validate / disconnect request payload: timestamp, digest, then whatever
\* follows (the auth blob of a validate request)
ValidateRequest(t, digest, auth) == ser_u64(t) \o ser_bytes(digest) \o auth

\* the digest an instance with this key mints for t
Digest(key, t) == hmac_sign(key, to_le_bytes(t))
\* a digest with its last byte changed
TamperByte(d) == [d EXCEPT ![Len(d)] = (d[Len(d)] + 1) % 256]

AuthBlob == ser_bytes(<<117, 58, 112>>)
FirstTimestamp == CHOOSE t \in Timestamps : \A u \in Timestamps : t <= u
Prefixes(p, lens) == {SubSeq(p, 1, n) : n \in {m \in lens : m <= Len(p)}}

\* well-formed challenge requests, and truncated ones
ChallengeInputs ==
    {ChallengeRequest(t) : t \in Timestamps}
    \cup Prefixes(ChallengeRequest(FirstTimestamp), {0, 7})

\* a key other than the instance's key (that of another server instance)
OtherKey(key) == CHOOSE k \in Keys : k # key
OtherTimestamp(t) == CHOOSE u \in Timestamps : u # t

\* validate and disconnect requests a server whose key is key can receive
\* when its digests for the timestamps in known are in the hands of clients
\* and attackers (nobody can write a digest the instance has not sent):
ValidateInputs(key, known) ==
    \* a timestamp with the digest this instance minted for it
    {ValidateRequest(t, Digest(key, t), <<>>) : t \in known}
    \* the same followed by an auth blob
    \cup {ValidateRequest(t, Digest(key, t), AuthBlob) :
            t \in known \cap {FirstTimestamp}}
    \* a tampered timestamp: the digest was minted for another timestamp
    \cup {ValidateRequest(OtherTimestamp(t), Digest(key, t), <<>>) :
            t \in known \cap {FirstTimestamp}}
    \* a tampered digest
    \cup {ValidateRequest(t, TamperByte(Digest(key, t)), <<>>) :
            t \in known \cap {FirstTimestamp}}
    \* a pair minted by another instance
    \cup {ValidateRequest(FirstTimestamp, Digest(OtherKey(key), FirstTimestamp),
                          <<>>)}
    \* truncated inside the timestamp, after it, and inside the digest
    \cup Prefixes(ValidateRequest(FirstTimestamp,
                      Digest(OtherKey(key), FirstTimestamp), <<>>), {0, 7, 8, 12})
    \* a minted pair that lost its last byte
    \cup UNION {Prefixes(ValidateRequest(t, Digest(key, t), <<>>), {17}) :
                  t \in known \cap {FirstTimestamp}}

(***************************************************************************)
(* UnorderedUnreliableReceiver.  A reader is a sequence of bits.  A message *)
(* is written as its kind bit, a bit that tells whether it refers to an     *)
(* entity, and then the bit of that entity's global handle.                 *)
(***************************************************************************)
\* <bool as Serde>::de
de_bool(reader) ==
    IF Len(reader) < 1 THEN SerdeErr
    ELSE [ok |-> TRUE, value |-> reader[1], rest |-> Tail(reader)]

MessageContainer(kind, entities) == [kind |-> kind, entities |-> entities]

\* fn read_message(message_kinds, converter, reader)
\*     -> Result<MessageContainer, SerdeErr>: message_kinds.read
read_message(reader) ==
    IF Len(reader) < 2 THEN SerdeErr
    ELSE IF reader[2] = 0
    THEN [ok |-> TRUE, value |-> MessageContainer(reader[1], {}),
          rest |-> Drop(reader, 2)]
    ELSE IF Len(reader) < 3 THEN SerdeErr
    ELSE [ok |-> TRUE, value |-> MessageContainer(reader[1], {reader[3]}),
          rest |-> Drop(reader, 3)]

\* todo!(): panic!("not yet implemented"); control never reaches the
\* statement after it
todo == [panicked |-> TRUE]

\* fn new() -> Self
UnorderedUnreliableReceiver_new == <<>>

\* fn recv_message(&mut self, entity_waitlist, message)
recv_message(incoming, message) ==
    IF todo.panicked
    THEN [panicked |-> TRUE, incoming_messages |-> incoming]
    ELSE [panicked |-> FALSE, incoming_messages |-> Append(incoming, message)]

\* fn receive_messages(&mut self, entity_waitlist) -> Vec<MessageContainer>
receive_messages(incoming) ==
    IF todo.panicked
    THEN [panicked |-> TRUE, incoming_messages |-> incoming, result |-> <<>>]
    ELSE [panicked |-> FALSE, incoming_messages |-> <<>>, result |-> incoming]

\* fn read_messages(&mut self, message_kinds, entity_waitlist, converter,
\*     reader) -> Result<(), SerdeErr>; read lists the messages handed to
\* recv_message, rest is what the reader has left
RECURSIVE read_messages(_, _)
read_messages(incoming, reader) ==
    LET channel_continue == de_bool(reader)
    IN  IF IsErr(channel_continue)
        THEN [result |-> "Err", incoming_messages |-> incoming,
              read |-> <<>>, rest |-> <<>>]
        ELSE IF channel_continue.value = 0
        THEN [result |-> "Ok", incoming_messages |-> incoming,
              read |-> <<>>, rest |-> channel_continue.rest]
        ELSE LET message == read_message(channel_continue.rest)
             IN  IF IsErr(message)
                 THEN [result |-> "Err", incoming_messages |-> incoming,
                       read |-> <<>>, rest |-> <<>>]
                 ELSE LET r == recv_message(incoming, message.value)
                      IN  IF r.panicked
                          THEN [result |-> "panic",
                                incoming_messages |-> r.incoming_messages,
                                read |-> <<message.value>>,
                                rest |-> message.rest]
                          ELSE LET more == read_messages(r.incoming_messages,
                                                         message.rest)
                               IN  [more EXCEPT
                                        !.read = <<message.value>> \o @]

\* the readers of the model: every bit string of at most MaxChunkBits bits
Chunks == UNION {[1..n -> {0, 1}] : n \in 0..MaxChunkBits}

\* the global entity handles a message can carry
Entities == {0, 1}

ReceiverCall(op, chunk, result, read, returned, rest) ==
    [op |-> op, chunk |-> chunk, result |-> result, read |-> read,
     returned |-> returned, rest |-> rest]

\* UnorderedUnreliableReceiver::new, an empty waitlist and an empty world
ReceiverInit ==
    /\ incoming_messages = UnorderedUnreliableReceiver_new
    /\ entity_waitlist = <<>>
    /\ local_entities = {}
    /\ panicked = FALSE
    /\ arrived = <<>>
    /\ delivered = <<>>
    /\ rlast = ReceiverCall("new", <<>>, "none", <<>>, <<>>, <<>>)

(***************************************************************************)
(* The HTTP session server (socket/server/src/session.rs).  A byte is a     *)
(* one-character string, a stream the sequence of bytes a client sends      *)
(* before it ends the stream.  Reads and writes of the stream succeed.      *)
(***************************************************************************)
\* the byte 0xFF, which no UTF-8 string contains
InvalidByte == "0xFF"

\* String::from_utf8, for bytes that are ASCII or InvalidByte
from_utf8(vec) ==
    IF \E i \in 1..Len(vec) : vec[i] = InvalidByte THEN None ELSE Some(vec)

UpperCase == <<"A", "B", "C", "D", "E", "F", "G", "H", "I", "J", "K", "L", "M",
               "N", "O", "P", "Q", "R", "S", "T", "U", "V", "W", "X", "Y", "Z">>
LowerCase == <<"a", "b", "c", "d", "e", "f", "g", "h", "i", "j", "k", "l", "m",
               "n", "o", "p", "q", "r", "s", "t", "u", "v", "w", "x", "y", "z">>
Digits == <<"0", "1", "2", "3", "4", "5", "6", "7", "8", "9">>

\* str::to_lowercase
to_lowercase(str) ==
    [i \in 1..Len(str) |->
        IF \E j \in 1..26 : UpperCase[j] = str[i]
        THEN LowerCase[CHOOSE j \in 1..26 : UpperCase[j] = str[i]]
        ELSE str[i]]

\* str::starts_with
starts_with(str, prefix) ==
    Len(prefix) <= Len(str) /\ SubSeq(str, 1, Len(prefix)) = prefix

\* str::split_at(mid).1
split_at_last(str, mid) == SubSeq(str, mid + 1, Len(str))

\* str::parse::<usize>().ok(): decimal digits after an optional plus sign
RECURSIVE parse_digits(_, _)
parse_digits(str, acc) ==
    IF str = <<>> THEN Some(acc)
    ELSE IF \E d \in 1..10 : Digits[d] = Head(str)
    THEN parse_digits(Tail(str),
             10 * acc + (CHOOSE d \in 1..10 : Digits[d] = Head(str)) - 1)
    ELSE None
parse_usize(str) ==
    LET digits == IF str # <<>> /\ Head(str) = "+" THEN Tail(str) ELSE str
    IN  IF digits = <<>> THEN None ELSE parse_digits(digits, 0)

\* rtc_endpoint_path of the SocketConfig
rtc_endpoint_path == <<"r", "t", "c">>
\* RTC_URL_PATH: format!("POST /{}", config.rtc_endpoint_path)
RTC_URL_PATH == <<"P", "O", "S", "T", " ", "/">> \o rtc_endpoint_path
\* "content-length: "
CONTENT_LENGTH_PREFIX ==
    <<"c", "o", "n", "t", "e", "n", "t", "-", "l", "e", "n", "g", "t", "h",
      ":", " ">>

\* the locals of serve before its loop
ServeLocals ==
    [success |-> FALSE, headers_been_read |-> FALSE, content_length |-> None,
     rtc_url_matched |-> FALSE, body |-> <<>>, line |-> <<>>, break |-> FALSE,
     panicked |-> FALSE]

\* lines 115-146 of the loop body: the byte as part of a line; the expect
\* on String::from_utf8 panics
serve_line(st, byte) ==
    IF byte = "\r" THEN st
    ELSE IF byte = "\n"
    THEN IF ~from_utf8(st.line).some
         THEN [st EXCEPT !.panicked = TRUE, !.break = TRUE]
         ELSE
         LET str == from_utf8(st.line).value
             st1 == [st EXCEPT !.line = <<>>]
         IN  IF st.rtc_url_matched
             THEN IF starts_with(to_lowercase(str), CONTENT_LENGTH_PREFIX)
                  THEN [st1 EXCEPT !.content_length =
                            parse_usize(split_at_last(str, 16))]
                  ELSE IF str = <<>>
                  THEN [st1 EXCEPT !.headers_been_read = TRUE]
                  ELSE st1
             ELSE IF starts_with(str, RTC_URL_PATH)
             THEN [st1 EXCEPT !.rtc_url_matched = TRUE]
             ELSE st1
    ELSE [st EXCEPT !.line = Append(@, byte)]

\* one turn of the while let loop (lines 97-147)
serve_byte(st, byte) ==
    IF st.headers_been_read
    THEN IF st.content_length.some
         THEN LET st1 == [st EXCEPT !.body = Append(@, byte)]
              IN  IF Len(st1.body) >= st.content_length.value
                  THEN [st1 EXCEPT !.success = TRUE, !.break = TRUE]
                  ELSE serve_line(st1, byte)
         ELSE [st EXCEPT !.break = TRUE]
    ELSE serve_line(st, byte)

\* the loop, until a break or the end of the stream
RECURSIVE serve_loop(_, _)
serve_loop(st, stream) ==
    IF st.break \/ stream = <<>> THEN st
    ELSE serve_loop(serve_byte(st, Head(stream)), Tail(stream))

\* <[u8] as AsyncBufReadExt>::lines: the lines of the body without their
\* line ends
RECURSIVE lines(_, _)
lines(bytes, line) ==
    IF bytes = <<>> THEN (IF line = <<>> THEN <<>> ELSE <<line>>)
    ELSE IF Head(bytes) = "\n"
    THEN <<IF line # <<>> /\ line[Len(line)] = "\r"
           THEN SubSeq(line, 1, Len(line) - 1) ELSE line>>
         \o lines(Tail(bytes), <<>>)
    ELSE lines(Tail(bytes), Append(line, Head(bytes)))

\* what the Stream RequestBuffer yields: each line, then NEWLINE_STR
RECURSIVE RequestBuffer(_)
RequestBuffer(buffer) ==
    IF buffer = <<>> THEN <<>>
    ELSE Head(buffer) \o <<"\n">> \o RequestBuffer(Tail(buffer))

\* an http::Response: status, header map and body
Response(status, headers, body) ==
    [status |-> status, headers |-> headers, body |-> body]

\* HeaderMap::insert
HeaderMap_insert(headers, name, value) ==
    [n \in (DOMAIN headers) \cup {name} |->
        IF n = name THEN value ELSE headers[n]]

\* RESPONSE_BAD
RESPONSE_BAD ==
    Response("404 NOT FOUND",
             [n \in {"content-type", "content-length",
                     "access-control-allow-origin"} |->
                 CASE n = "content-type" -> "text/html"
                   [] n = "content-length" -> "0"
                   [] OTHER -> "*"],
             "")

\* what session_endpoint.http_session_request can return
EndpointResults ==
    {[ok |-> FALSE, resp |-> Response("none", <<>>, "")],
     [ok |-> TRUE,
      resp |-> Response("200 OK",
                   [n \in {"content-type"} |-> "application/json"], "answer")],
     [ok |-> TRUE,
      resp |-> Response("200 OK",
                   [n \in {"content-type", "access-control-allow-origin"} |->
                       IF n = "content-type" THEN "application/json"
                       ELSE "null"], "answer")]}

\* async fn serve(session_endpoint, stream): body is the body vector when
\* serve calls http_session_request, session_request what the RequestBuffer
\* made of it yields to http_session_request, invoked how many times serve
\* calls http_session_request, written the responses serve writes to the
\* stream, in order, closed whether serve flushed and closed the stream,
\* panicked whether the task panicked instead
serve(stream, endpoint_result) ==
    LET st == serve_loop(ServeLocals, stream)
        success == st.success /\ endpoint_result.ok
    IN  IF st.panicked
        THEN [body |-> None, session_request |-> None, invoked |-> 0,
              written |-> <<>>, closed |-> FALSE, panicked |-> TRUE]
        ELSE
        [body |-> IF st.success THEN Some(st.body) ELSE None,
         session_request |->
             IF st.success THEN Some(RequestBuffer(lines(st.body, <<>>)))
             ELSE None,
         invoked |-> IF st.success THEN 1 ELSE 0,
         written |->
             (IF st.success /\ endpoint_result.ok
              THEN <<[endpoint_result.resp EXCEPT !.headers =
                         HeaderMap_insert(@, "access-control-allow-origin", "*")]>>
              ELSE <<>>)
             \o (IF ~success THEN <<RESPONSE_BAD>> ELSE <<>>),
         closed |-> TRUE, panicked |-> FALSE]

\* the requests of the model, as a client writes them
CRLF == <<"\r", "\n">>
HTTP_VERSION == <<" ", "H", "T", "T", "P", "/", "1", ".", "1">>
RequestLines ==
    {RTC_URL_PATH \o HTTP_VERSION,
     RTC_URL_PATH \o <<"x">> \o HTTP_VERSION,
     <<"G", "E", "T", " ", "/">> \o rtc_endpoint_path \o HTTP_VERSION,
     <<"P", "O", "S", "T", " ", "/", "x">> \o HTTP_VERSION,
     RTC_URL_PATH \o <<" ", InvalidByte>> \o HTTP_VERSION}
ContentLengthNames ==
    {<<"C", "o", "n", "t", "e", "n", "t", "-", "L", "e", "n", "g", "t", "h">>,
     <<"c", "o", "n", "t", "e", "n", "t", "-", "l", "e", "n", "g", "t", "h">>}
ContentLengthValues ==
    {<<Digits[n + 1]>> : n \in 0..MaxContentLength} \cup {<<"x">>}
NoHeader == <<>>
ContentLengthHeaders ==
    {name \o <<":", " ">> \o value :
        name \in ContentLengthNames, value \in ContentLengthValues}
    \cup {NoHeader}
Bodies == UNION {[1..n -> {"v", "\n"}] : n \in 0..MaxBodyLen}
\* where the client ends its stream: after the body bytes it sends, before
\* the request line, inside the request line, or inside the headers
\* (before the blank line)
EarlyEnds == {"before_line", "in_line", "in_headers"}
Requests ==
    [line : RequestLines, content_length : ContentLengthHeaders, body : Bodies,
     end : {"body"}]
    \cup [line : RequestLines, content_length : ContentLengthHeaders,
          body : {<<>>}, end : EarlyEnds]
WriteRequest(request) ==
    CASE request.end = "before_line" -> <<>>
      [] request.end = "in_line" ->
             SubSeq(request.line, 1, Len(request.line) - Len(HTTP_VERSION))
      [] request.end = "in_headers" ->
             request.line \o CRLF
             \o <<"H", "o", "s", "t", ":", " ", "h">> \o CRLF
             \o request.content_length
      [] OTHER ->
             request.line \o CRLF
             \o <<"H", "o", "s", "t", ":", " ", "h">> \o CRLF
             \o (IF request.content_length = NoHeader THEN <<>>
                 ELSE request.content_length \o CRLF)
             \o CRLF \o request.body

Connection(op, request, endpoint_result, served) ==
    [op |-> op, request |-> request, endpoint_result |-> endpoint_result,
     body |-> served.body, session_request |-> served.session_request,
     invoked |-> served.invoked, written |-> served.written,
     closed |-> served.closed, panicked |-> served.panicked]

NoRequest ==
    [line |-> <<>>, content_length |-> NoHeader, body |-> <<>>, end |-> "body"]
NoEndpointResult == [ok |-> FALSE, resp |-> Response("none", <<>>, "")]
NotServed ==
    [body |-> None, session_request |-> None, invoked |-> 0, written |-> <<>>,
     closed |-> FALSE, panicked |-> FALSE]

\* start_session_server: the listener waits for a connection
SessionInit ==
    connection = Connection("listen", NoRequest, NoEndpointResult, NotServed)

(***************************************************************************)
(* The client socket's receivers (socket/client/src/backends/wasm_bindgen). *)
(* A receiver and its clones share one cell or queue.  A call holds the     *)
(* lock or the borrow from its first statement to its return, so calls are  *)
(* steps that do not overlap.                                               *)
(***************************************************************************)
Clones == 1..NumClones
\* Result::Ok
Ok(v) == [ok |-> TRUE, value |-> v]

\* the IdentityTokens a server issues
IdentityTokens == {"token-a", "token-b"}
NoToken == [some |-> FALSE, value |-> ""]
SomeToken(id_token) == [some |-> TRUE, value |-> id_token]

\* IdentityReceiverImpl::new
IdentityReceiverImpl_new == NoToken

\* fn send(&self, id_token)
IdentityReceiverImpl_send(token_guard, id_token) == SomeToken(id_token)

\* receive that returns a copy of the token and leaves it in the cell
IdentityReceiverImpl_receive_clone(token_guard) ==
    [result |-> Ok(token_guard), id_cell |-> token_guard]

\* fn receive(&mut self) -> Result<Option<IdentityToken>, NaiaClientSocketError>
IdentityReceiverImpl_receive(token_guard) ==
    IF token_guard.some
    THEN [result |-> Ok(SomeToken(token_guard.value)), id_cell |-> NoToken]
    ELSE [result |-> Ok(NoToken), id_cell |-> token_guard]

IdentityCall(op, clone, id_token, result) ==
    [op |-> op, clone |-> clone, id_token |-> id_token, result |-> result]

IdentityInit ==
    /\ id_cell = IdentityReceiverImpl_new
    /\ id_sent = <<>>
    /\ id_received = <<>>
    /\ ilast = IdentityCall("new", 1, NoToken, Ok(NoToken))

\* the payloads the server sends: Box<[u8]>
Payloads == {<<1>>, <<2, 3>>}
NoPayload == [some |-> FALSE, value |-> <<>>]
SomePayload(payload) == [some |-> TRUE, value |-> payload]

\* VecDeque::push_back
VecDeque_push_back(queue, payload) == Append(queue, payload)

\* PacketReceiverImpl::new: last_payload
PacketReceiverImpl_new == NoPayload

\* receive that pops the back of the queue
PacketReceiverImpl_receive_pop_back(queue, payload_cell) ==
    IF queue # <<>>
    THEN [result |-> Ok(SomePayload(queue[Len(queue)])),
          message_queue |-> SubSeq(queue, 1, Len(queue) - 1),
          last_payload |-> SomePayload(queue[Len(queue)])]
    ELSE [result |-> Ok(NoPayload), message_queue |-> queue,
          last_payload |-> payload_cell]

\* fn receive(&mut self) -> Result<Option<&[u8]>, NaiaClientSocketError>
PacketReceiverImpl_receive(queue, payload_cell) ==
    IF queue # <<>>
    THEN [result |-> Ok(SomePayload(Head(queue))),
          message_queue |-> Tail(queue),
          last_payload |-> SomePayload(Head(queue))]
    ELSE [result |-> Ok(NoPayload), message_queue |-> queue,
          last_payload |-> payload_cell]

PacketCall(op, clone, payload, result) ==
    [op |-> op, clone |-> clone, payload |-> payload, result |-> result]

PacketInit ==
    /\ message_queue = <<>>
    /\ last_payload = [c \in Clones |-> PacketReceiverImpl_new]
    /\ pushed = <<>>
    /\ received_payloads = <<>>
    /\ plast = PacketCall("new", 1, NoPayload, Ok(NoPayload))

(***************************************************************************)
(* The server: construction, and one action per packet or decision it      *)
(* passes to the handshake manager.                                        *)
(***************************************************************************)
Call(op, address, request, result, response) ==
    [op |-> op, address |-> address, request |-> request,
     result |-> result, response |-> response, signed |-> FALSE]

\* hmac::Key::generate that can return a key it returned before
Key_generate_repeating(used) == Keys

\* hmac::Key::generate(hmac::HMAC_SHA256, &SystemRandom::new()): 256 random
\* bits, a key no instance before has drawn (used)
Key_generate(used) == Keys \ used

\* HandshakeManager::new, and a server without connections
Init ==
    /\ connection_hash_key \in Key_generate({})
    /\ retired = {}
    /\ address_to_timestamp_map = HashMap_new
    /\ timestamp_digest_map = CacheMap_new
    /\ connections = {}
    /\ minted = {}
    /\ last = Call("new", NoAddress, <<>>, "none", NoResponse)
    /\ ReceiverInit
    /\ SessionInit
    /\ IdentityInit
    /\ PacketInit

\* a ClientChallengeRequest packet arrives
RecvChallengeRequest(request) ==
    LET r == recv_challenge_request(connection_hash_key, timestamp_digest_map,
                                    request)
    IN  /\ timestamp_digest_map' = r.timestamp_digest_map
        /\ last' = [Call("recv_challenge_request", NoAddress, request,
                         IF r.ok THEN "Ok" ELSE "Err", r.writer)
                    EXCEPT !.signed = r.signed]
        /\ minted' = IF r.ok THEN minted \cup {de_u64(request).value} ELSE minted
        /\ UNCHANGED <<connection_hash_key, address_to_timestamp_map, connections,
                   outside_vars>>

\* a ClientValidateRequest packet arrives from address; the validate
\* response is sent at once on success
RecvValidateRequest(address, request) ==
    LET r == recv_validate_request(connection_hash_key, address_to_timestamp_map,
                                   address, request)
    IN  /\ address_to_timestamp_map' = r.address_to_timestamp_map
        /\ last' = Call("recv_validate_request", address, request, r.result,
                        IF r.result = "Success" THEN write_validate_response
                        ELSE NoResponse)
        /\ UNCHANGED <<connection_hash_key, timestamp_digest_map, connections,
                   minted,
                   outside_vars>>

\* the application accepts the validated peer: the connect response is
\* sent and the connection object created
AcceptConnection(address) ==
    /\ address \in DOMAIN address_to_timestamp_map
    /\ connections' = connections \cup {address}
    /\ last' = Call("accept_connection", address, <<>>, "none",
                    write_connect_response)
    /\ UNCHANGED <<hm_vars, minted,
                   outside_vars>>

\* the application rejects the validated peer: the reject response is sent
\* and the user deleted
RejectConnection(address) ==
    /\ address \in DOMAIN address_to_timestamp_map
    /\ address \notin connections
    /\ address_to_timestamp_map' = delete_user(address_to_timestamp_map, address)
    /\ last' = Call("reject_connection", address, <<>>, "none",
                    write_reject_response)
    /\ UNCHANGED <<connection_hash_key, timestamp_digest_map, connections,
                   minted,
                   outside_vars>>

\* a Disconnect packet arrives from an address that has a connection
RecvDisconnectRequest(address, request) ==
    LET ok == verify_disconnect_request(connection_hash_key,
                  address_to_timestamp_map, address, request)
    IN  /\ address \in connections
        /\ connections' = IF ok THEN connections \ {address} ELSE connections
        /\ address_to_timestamp_map' =
               IF ok THEN delete_user(address_to_timestamp_map, address)
               ELSE address_to_timestamp_map
        /\ last' = Call("verify_disconnect_request", address, request,
                        IF ok THEN "true" ELSE "false", NoResponse)
        /\ UNCHANGED <<connection_hash_key, timestamp_digest_map, minted,
                   outside_vars>>

\* nothing was heard from the connection for disconnect_timeout
TimeoutConnection(address) ==
    /\ address \in connections
    /\ connections' = connections \ {address}
    /\ address_to_timestamp_map' = delete_user(address_to_timestamp_map, address)
    /\ last' = Call("timeout", address, <<>>, "none", NoResponse)
    /\ UNCHANGED <<connection_hash_key, timestamp_digest_map, minted,
                   outside_vars>>

Next ==
    \/ \E request \in ChallengeInputs : RecvChallengeRequest(request)
    \/ \E address \in Addresses, request \in ValidateInputs(connection_hash_key, minted) :
           RecvValidateRequest(address, request)
    \/ \E address \in Addresses : AcceptConnection(address)
    \/ \E address \in Addresses : RejectConnection(address)
    \/ \E address \in Addresses, request \in ValidateInputs(connection_hash_key, minted) :
           RecvDisconnectRequest(address, request)
    \/ \E address \in Addresses : TimeoutConnection(address)

Spec == Init /\ [][Next]_vars

\* the server process is restarted: its connections are gone and a new
\* HandshakeManager is constructed
Restart ==
    /\ \E key \in Key_generate(retired \cup {connection_hash_key}) :
           connection_hash_key' = key
    /\ retired' = retired \cup {connection_hash_key}
    /\ address_to_timestamp_map' = HashMap_new
    /\ timestamp_digest_map' = CacheMap_new
    /\ connections' = {}
    /\ minted' = {}
    /\ last' = Call("new", NoAddress, <<>>, "none", NoResponse)
    /\ UNCHANGED non_handshake_vars

\* the client whose handshake never reaches the connect step
AbandoningClient == "10.0.0.2"

\* the server facing one client that sends challenge and validate requests
\* in any order and number and then falls silent: the application is never
\* asked to accept it
NextAbandon ==
    \/ \E request \in ChallengeInputs : RecvChallengeRequest(request)
    \/ \E request \in ValidateInputs(connection_hash_key, minted) :
           RecvValidateRequest(AbandoningClient, request)

SpecAbandon == Init /\ [][NextAbandon]_vars

\* the handshake manager across restarts of the server
SpecRestart == Init /\ [][Next \/ Restart]_vars

(***************************************************************************)
(* The connection that owns the receiver: one action per call it makes.     *)
(* A panic ends the thread: nothing is called after it.                     *)
(***************************************************************************)
handshake_vars == <<connection_hash_key, address_to_timestamp_map,
                    timestamp_digest_map, connections, minted, last, retired>>

\* a packet's chunk for this channel is read
ReadMessages(chunk) ==
    LET r == read_messages(incoming_messages, chunk)
    IN  /\ ~panicked
        /\ incoming_messages' = r.incoming_messages
        /\ panicked' = (r.result = "panic")
        /\ arrived' = arrived \o r.read
        /\ rlast' = ReceiverCall("read_messages", chunk, r.result, r.read, <<>>,
                                 r.rest)
        /\ UNCHANGED <<entity_waitlist, local_entities, delivered,
                       handshake_vars, connection, client_vars>>

\* the application collects the channel's messages
ReceiveMessages ==
    LET r == receive_messages(incoming_messages)
    IN  /\ ~panicked
        /\ incoming_messages' = r.incoming_messages
        /\ panicked' = r.panicked
        /\ delivered' = delivered \o r.result
        /\ rlast' = ReceiverCall("receive_messages", <<>>,
                                 IF r.panicked THEN "panic" ELSE "Ok", <<>>,
                                 r.result, <<>>)
        /\ UNCHANGED <<entity_waitlist, local_entities, arrived,
                       handshake_vars, connection, client_vars>>

\* entity replication creates the local entity of a global handle
SpawnEntity(entity) ==
    /\ entity \notin local_entities
    /\ local_entities' = local_entities \cup {entity}
    /\ UNCHANGED <<incoming_messages, entity_waitlist, panicked, arrived,
                   delivered, rlast, handshake_vars, connection, client_vars>>

NextReceiver ==
    \/ \E chunk \in Chunks : ReadMessages(chunk)
    \/ ReceiveMessages
    \/ \E entity \in Entities : SpawnEntity(entity)

SpecReceiver == Init /\ [][NextReceiver]_vars

(***************************************************************************)
(* The session server: listen accepts a connection and serve handles it.    *)
(***************************************************************************)
\* listen accepts the connection of a client that sends request and then
\* ends its stream, and spawns the task that serves it
Accept(request) ==
    /\ connection.op = "listen"
    /\ connection' = Connection("accept", request, NoEndpointResult, NotServed)
    /\ UNCHANGED <<handshake_vars, receiver_vars, client_vars>>

\* the task runs serve; the session endpoint answers endpoint_result if it
\* is asked
Serve(endpoint_result) ==
    /\ connection.op = "accept"
    /\ connection' = Connection("serve", connection.request, endpoint_result,
                                serve(WriteRequest(connection.request),
                                      endpoint_result))
    /\ UNCHANGED <<handshake_vars, receiver_vars, client_vars>>

\* the task ends, and listen waits for the next connection
TaskEnds ==
    /\ connection.op = "serve"
    /\ connection' = Connection("listen", NoRequest, NoEndpointResult, NotServed)
    /\ UNCHANGED <<handshake_vars, receiver_vars, client_vars>>

NextSession ==
    \/ \E request \in Requests : Accept(request)
    \/ \E endpoint_result \in EndpointResults : Serve(endpoint_result)
    \/ TaskEnds

SpecSession == Init /\ [][NextSession]_vars

(***************************************************************************)
(* The identity receiver: the data channel sends tokens through its         *)
(* handle, the application polls receive on the receiver or a clone.        *)
(***************************************************************************)
IdentitySend(clone, id_token) ==
    /\ Len(id_sent) < MaxSends
    /\ id_cell' = IdentityReceiverImpl_send(id_cell, id_token)
    /\ id_sent' = Append(id_sent, id_token)
    /\ ilast' = IdentityCall("send", clone, SomeToken(id_token), Ok(NoToken))
    /\ UNCHANGED <<id_received, packet_vars, handshake_vars, receiver_vars,
                   connection>>

IdentityReceive(clone) ==
    LET r == IdentityReceiverImpl_receive(id_cell)
    IN  /\ id_cell' = r.id_cell
        /\ id_received' =
               IF r.result.ok /\ r.result.value.some
               THEN Append(id_received,
                           [clone |-> clone, id_token |-> r.result.value.value,
                            sends |-> Len(id_sent)])
               ELSE id_received
        /\ ilast' = IdentityCall("receive", clone, NoToken, r.result)
        /\ UNCHANGED <<id_sent, packet_vars, handshake_vars, receiver_vars,
                       connection>>

NextIdentity ==
    \/ \E clone \in Clones, id_token \in IdentityTokens :
           IdentitySend(clone, id_token)
    \/ \E clone \in Clones : IdentityReceive(clone)

SpecIdentity == Init /\ [][NextIdentity]_vars

(***************************************************************************)
(* The packet receiver: the data channel pushes the payloads that arrive    *)
(* to the shared queue, the application polls receive on the receiver or a  *)
(* clone.                                                                   *)
(***************************************************************************)
PacketPush(payload) ==
    /\ Len(pushed) < MaxPushes
    /\ message_queue' = VecDeque_push_back(message_queue, payload)
    /\ pushed' = Append(pushed, payload)
    /\ plast' = PacketCall("push_back", 1, SomePayload(payload), Ok(NoPayload))
    /\ UNCHANGED <<last_payload, received_payloads, identity_vars,
                   handshake_vars, receiver_vars, connection>>

PacketReceive(clone) ==
    LET r == PacketReceiverImpl_receive(message_queue, last_payload[clone])
    IN  /\ message_queue' = r.message_queue
        /\ last_payload' = [last_payload EXCEPT ![clone] = r.last_payload]
        /\ received_payloads' =
               IF r.result.ok /\ r.result.value.some
               THEN Append(received_payloads, r.result.value.value)
               ELSE received_payloads
        /\ plast' = PacketCall("receive", clone, NoPayload, r.result)
        /\ UNCHANGED <<pushed, identity_vars, handshake_vars, receiver_vars,
                       connection>>

NextPacket ==
    \/ \E payload \in Payloads : PacketPush(payload)
    \/ \E clone \in Clones : PacketReceive(clone)

SpecPacket == Init /\ [][NextPacket]_vars

(***************************************************************************)
(* Properties.                                                              *)
(***************************************************************************)
Auths == {<<>>, AuthBlob}

\* the requests that carry a timestamp of the model with the HMAC of its
\* little-endian bytes under key, as a client writes them
ValidRequests(key) ==
    {ValidateRequest(t, Digest(key, t), auth) : t \in Timestamps, auth \in Auths}

\* the timestamp of such a request
PairTimestamp(key, request) ==
    CHOOSE t \in Timestamps :
        \E auth \in Auths : request = ValidateRequest(t, Digest(key, t), auth)

Bound(map, address, t) == address \in DOMAIN map /\ map[address] = t

\* C1: a validate request from address a whose digest is the HMAC of its
\* timestamp t under the instance's key returns Success, and afterwards
\* address_to_timestamp_map[a] = t.
C1_ValidPairBindsAddress ==
    (/\ last.op = "recv_validate_request"
     /\ last.request \in ValidRequests(connection_hash_key))
    => /\ last.result = "Success"
       /\ Bound(address_to_timestamp_map, last.address,
                PairTimestamp(connection_hash_key, last.request))

\* scenario 2 of the spec: 10.0.0.2 validated timestamp 1700000000 with an
\* auth blob
C1_Witness ==
    /\ last.op = "recv_validate_request"
    /\ last.address = "10.0.0.2"
    /\ last.request = ValidateRequest(1700000000,
                          Digest(connection_hash_key, 1700000000), AuthBlob)
    /\ last.result = "Success"
    /\ address_to_timestamp_map["10.0.0.2"] = 1700000000

\* C2: a validate request whose digest is not the HMAC of its timestamp
\* under the instance's key returns Invalid, produces no response, and
\* leaves the address map and the digest cache as they were.
C2_InvalidPairChangesNothing ==
    [][(/\ last'.op = "recv_validate_request"
        /\ last'.request \notin ValidRequests(connection_hash_key))
       => /\ last'.result = "Invalid"
          /\ last'.response = NoResponse
          /\ address_to_timestamp_map' = address_to_timestamp_map
          /\ timestamp_digest_map' = timestamp_digest_map]_vars

\* scenario 3 of the spec: a tampered digest was refused while the map and
\* the cache hold entries
C2_Witness ==
    /\ last.op = "recv_validate_request"
    /\ last.request = ValidateRequest(FirstTimestamp,
           TamperByte(Digest(connection_hash_key, FirstTimestamp)), <<>>)
    /\ last.result = "Invalid"
    /\ DOMAIN address_to_timestamp_map # {}
    /\ Len(timestamp_digest_map) > 0

\* C3: in every reachable state verify_disconnect_request(connection,
\* request) is true exactly when the request carries a pair that verifies
\* under the instance's key and the map binds connection.address to the
\* timestamp of the pair; a valid pair is not honored for an address
\* without an entry.
C3_DisconnectNeedsOwnBinding ==
    LET valid == ValidRequests(connection_hash_key)
    IN  \A request \in ValidateInputs(connection_hash_key, Timestamps) :
            \A address \in Addresses :
                verify_disconnect_request(connection_hash_key,
                    address_to_timestamp_map, address, request)
                <=> (/\ request \in valid
                     /\ Bound(address_to_timestamp_map, address,
                              PairTimestamp(connection_hash_key, request)))

\* a disconnect request with a valid pair was refused for a connection bound
\* to another timestamp, while the pair's timestamp is bound to another
\* address
C3_Witness ==
    /\ last.op = "verify_disconnect_request"
    /\ last.request \in ValidRequests(connection_hash_key)
    /\ last.result = "false"
    /\ \E a \in Addresses \ {last.address} :
           Bound(address_to_timestamp_map, a,
                 PairTimestamp(connection_hash_key, last.request))

\* C4: challenge, validate and disconnect packets processed for source
\* address b, whatever pairs they carry, leave the binding of every other
\* address a and a's connection as they were.
C4_ReplayBindsOnlyReplayer ==
    [][\A a \in Addresses :
          (/\ last'.op \in {"recv_challenge_request", "recv_validate_request",
                            "verify_disconnect_request"}
           /\ last'.address # a)
          => /\ HashMap_get(address_to_timestamp_map', a)
                    = HashMap_get(address_to_timestamp_map, a)
             /\ (a \in connections' <=> a \in connections)]_vars

\* the spoofer replayed the pair of the connected client 10.0.0.2 in a
\* validate request: both addresses are bound to the timestamp
C4_Witness ==
    /\ last.op = "recv_validate_request"
    /\ last.address = "10.0.0.99"
    /\ last.result = "Success"
    /\ "10.0.0.2" \in connections
    /\ Bound(address_to_timestamp_map, "10.0.0.2",
             address_to_timestamp_map["10.0.0.99"])

\* the party that sends from an address: a client that reconnects keeps
\* its identity, the spoofer is another party
ClientOf(address) == IF address = "10.0.0.99" THEN "spoofer" ELSE "client"

\* C5 (as stated): the map never holds two distinct addresses bound to the
\* same timestamp, unless both are addresses of the timestamp's client.
C5_TimestampsUnique ==
    \A a, b \in DOMAIN address_to_timestamp_map :
        (a # b /\ address_to_timestamp_map[a] = address_to_timestamp_map[b])
        => ClientOf(a) = ClientOf(b)

\* C5 (amended): a binding a -> t enters the map only by a validate request
\* from a that carries t with its valid digest, so two addresses are bound
\* to the same timestamp only when both presented its pair.
C5_BindingOnlyByOwnValidPair ==
    [][\A a \in DOMAIN address_to_timestamp_map' :
          HashMap_get(address_to_timestamp_map, a)
              # HashMap_get(address_to_timestamp_map', a)
          => /\ last'.op = "recv_validate_request"
             /\ last'.address = a
             /\ last'.request \in ValidRequests(connection_hash_key)
             /\ PairTimestamp(connection_hash_key, last'.request)
                    = address_to_timestamp_map'[a]]_vars

\* two parties are bound to one timestamp
C5_Witness ==
    /\ DOMAIN address_to_timestamp_map = Addresses
    /\ \E t \in Timestamps : \A a \in Addresses : address_to_timestamp_map[a] = t

DeletesUser(call, a) ==
    /\ call.address = a
    /\ \/ call.op \in {"reject_connection", "timeout"}
       \/ call.op = "verify_disconnect_request" /\ call.result = "true"

\* C6: challenge requests and failed validate requests leave every binding
\* of the map unchanged; the binding of a changes only by a successful
\* validate from a or by delete_user(a).
C6_BindingPreserved ==
    [][/\ (\/ last'.op = "recv_challenge_request"
           \/ last'.op = "recv_validate_request" /\ last'.result = "Invalid")
          => address_to_timestamp_map' = address_to_timestamp_map
       /\ \A a \in DOMAIN address_to_timestamp_map :
              HashMap_get(address_to_timestamp_map', a)
                  # HashMap_get(address_to_timestamp_map, a)
              => \/ /\ last'.op = "recv_validate_request"
                    /\ last'.address = a
                    /\ last'.result = "Success"
                 \/ /\ DeletesUser(last', a)
                    /\ a \notin DOMAIN address_to_timestamp_map']_vars

\* a challenge for another timestamp, and a failed validate, arrived while
\* 10.0.0.2 is connected and bound
C6_Witness ==
    /\ "10.0.0.2" \in connections
    /\ Bound(address_to_timestamp_map, "10.0.0.2", FirstTimestamp)
    /\ CacheMap_keys(timestamp_digest_map) = {OtherTimestamp(FirstTimestamp)}
    /\ last.op = "recv_validate_request"
    /\ last.address = "10.0.0.2"
    /\ last.result = "Invalid"

\* C7: when the server emits the ServerRejectResponse for an address, the
\* map has no entry for that address afterwards.
C7_RejectPurgesBinding ==
    last.op = "reject_connection"
    => /\ last.response.header.packet_type = "ServerRejectResponse"
       /\ last.address \notin DOMAIN address_to_timestamp_map

\* a validated address was rejected while the other address stays bound
C7_Witness ==
    /\ last.op = "reject_connection"
    /\ last.address = "10.0.0.99"
    /\ "10.0.0.2" \in DOMAIN address_to_timestamp_map

\* C8: a successful validate is answered by the validate response and
\* creates no connection; a connection appears only in the step that emits
\* the connect response for its address; writing the validate or connect
\* response changes no field of the handshake manager besides the insert of
\* recv_validate_request.
C8_ValidateDoesNotConnect ==
    [][/\ last'.op = "recv_validate_request"
          => /\ connections' = connections
             /\ (last'.result = "Success"
                 => last'.response.header.packet_type = "ServerValidateResponse")
             /\ address_to_timestamp_map' =
                    recv_validate_request(connection_hash_key,
                        address_to_timestamp_map, last'.address,
                        last'.request).address_to_timestamp_map
             /\ UNCHANGED <<connection_hash_key, timestamp_digest_map>>
       /\ last'.response.header.packet_type = "ServerConnectResponse"
          => /\ last'.op = "accept_connection"
             /\ UNCHANGED hm_vars
       /\ \A a \in connections' \ connections :
              /\ last'.address = a
              /\ last'.response.header.packet_type = "ServerConnectResponse"]_vars

\* 10.0.0.2 validated successfully and has no connection
C8_Witness ==
    /\ last.op = "recv_validate_request"
    /\ last.address = "10.0.0.2"
    /\ last.result = "Success"
    /\ last.response = write_validate_response
    /\ "10.0.0.2" \notin connections

\* the digest of a challenge response body: what follows the timestamp and
\* the length prefix
ResponseDigest(writer) == Drop(writer.body, 9)

\* a digest with one of its bytes changed, shortened, or of another key
TamperedDigests(key, t, d) ==
    {[d EXCEPT ![i] = (d[i] + 1) % 256] : i \in 1..Len(d)}
    \cup {SubSeq(d, 1, Len(d) - 1), Digest(OtherKey(key), t)}

\* timestamps other than t
TamperedTimestamps(t) == (Timestamps \cup {t + 1, t + 256}) \ {t}

\* C9: in every state and for every timestamp t, the digest
\* write_challenge_response writes for t (signed or cached) is accepted by
\* timestamp_validate together with t, and is rejected with any other
\* timestamp; t is rejected with any changed digest.
C9_HmacRoundTrip ==
    \A t \in Timestamps :
        LET writer == write_challenge_response(connection_hash_key,
                          timestamp_digest_map, t).writer
            digest == ResponseDigest(writer)
        IN  /\ timestamp_validate(connection_hash_key, writer.body) = Some(t)
            /\ \A auth \in Auths :
                   timestamp_validate(connection_hash_key,
                       ValidateRequest(t, digest, auth)) = Some(t)
            /\ \A u \in TamperedTimestamps(t) :
                   timestamp_validate(connection_hash_key,
                       ValidateRequest(u, digest, <<>>)) = None
            /\ \A d \in TamperedDigests(connection_hash_key, t, digest) :
                   timestamp_validate(connection_hash_key,
                       ValidateRequest(t, d, <<>>)) = None

\* a challenge was answered, the echo of its response validates, and the
\* digest of a bound timestamp is no longer in the cache
C9_Witness ==
    /\ last.op = "recv_challenge_request"
    /\ last.result = "Ok"
    /\ timestamp_validate(connection_hash_key, last.response.body).some
    /\ \E a \in DOMAIN address_to_timestamp_map :
           ~CacheMap_contains_key(timestamp_digest_map,
                                  address_to_timestamp_map[a])

\* C10: a well-formed challenge request with timestamp t is answered by a
\* packet tagged ServerChallengeResponse whose body is t followed by the
\* HMAC of t's little-endian bytes under the instance key, whatever the
\* cache held.
C10_ChallengeResponseContent ==
    \A t \in Timestamps :
        (last.op = "recv_challenge_request" /\ last.request = ChallengeRequest(t))
        => /\ last.result = "Ok"
           /\ last.response.header = StandardHeader("ServerChallengeResponse")
           /\ last.response.body =
                  to_le_bytes(t) \o <<9, connection_hash_key>> \o to_le_bytes(t)

\* scenario 1 of the spec, with the cache full
C10_Witness ==
    /\ last.op = "recv_challenge_request"
    /\ last.request = ChallengeRequest(1700000000)
    /\ last.response.header.packet_type = "ServerChallengeResponse"
    /\ Len(timestamp_digest_map) = CacheCapacity

\* C11: a challenge request for a timestamp that is in the digest cache
\* when it arrives runs no hmac::sign, leaves the cache as it was, and is
\* answered with the cached digest: the same response as the call before
\* it when that call was the same request.
C11_RepeatServedFromCache ==
    [][\A t \in Timestamps :
          (/\ last'.op = "recv_challenge_request"
           /\ last'.request = ChallengeRequest(t)
           /\ CacheMap_contains_key(timestamp_digest_map, t))
          => /\ ~last'.signed
             /\ timestamp_digest_map' = timestamp_digest_map
             /\ last'.response =
                    BitWriter("ServerChallengeResponse",
                        ser_u64(t)
                        \o ser_bytes(CacheMap_get_unchecked(timestamp_digest_map, t)))
             /\ (last.op = "recv_challenge_request" /\ last.request = last'.request)
                    => last'.response = last.response]_vars

\* a challenge was answered from the cache
C11_Witness ==
    /\ last.op = "recv_challenge_request"
    /\ last.result = "Ok"
    /\ ~last.signed
    /\ CacheMap_contains_key(timestamp_digest_map, de_u64(last.request).value)
    /\ ResponseDigest(last.response) =
           CacheMap_get_unchecked(timestamp_digest_map, de_u64(last.request).value)

\* C12: a newly constructed instance has an empty map and cache, and every
\* instance rejects, in recv_validate_request and in
\* verify_disconnect_request, each (timestamp, digest) pair minted under
\* the key of an instance that a restart has replaced.
C12_RestartInvalidatesPairs ==
    /\ last.op = "new"
           => /\ address_to_timestamp_map = HashMap_new
              /\ timestamp_digest_map = CacheMap_new
    /\ \A old \in retired : \A request \in ValidRequests(old) :
           /\ timestamp_validate(connection_hash_key, request) = None
           /\ \A address \in Addresses :
                  /\ recv_validate_request(connection_hash_key,
                         address_to_timestamp_map, address, request).result
                        = "Invalid"
                  /\ ~verify_disconnect_request(connection_hash_key,
                         address_to_timestamp_map, address, request)
           /\ (last.op = "recv_validate_request" /\ last.request = request)
                  => last.result = "Invalid"
           /\ (last.op = "verify_disconnect_request" /\ last.request = request)
                  => last.result = "false"

\* after a restart, a connected client's disconnect that carries the pair
\* of the replaced instance was refused
C12_Witness ==
    /\ retired # {}
    /\ last.op = "verify_disconnect_request"
    /\ last.address \in connections
    /\ \E old \in retired : last.request \in ValidRequests(old)
    /\ last.result = "false"

\* C13 as stated: a challenge step and a validate step change no server
\* state other than the timestamp-to-digest cache.
C13_StatelessExceptCache ==
    [][last'.op \in {"recv_challenge_request", "recv_validate_request"}
          => UNCHANGED <<connection_hash_key, address_to_timestamp_map,
                         connections>>]_vars

\* C13: a challenge step changes no server state other than the
\* timestamp-to-digest cache; a validate step leaves the key, the cache
\* and the connections alone and changes the address map only on Success,
\* and then only by binding the source address to the request's timestamp.
C13_ChallengeCacheOnlyValidateMapOnly ==
    [][/\ last'.op = "recv_challenge_request"
             => UNCHANGED <<connection_hash_key, address_to_timestamp_map,
                            connections>>
       /\ last'.op = "recv_validate_request"
             => /\ UNCHANGED <<connection_hash_key, timestamp_digest_map,
                               connections>>
                /\ last'.result = "Invalid"
                       => address_to_timestamp_map' = address_to_timestamp_map
                /\ last'.result = "Success"
                       => address_to_timestamp_map' =
                              HashMap_insert(address_to_timestamp_map,
                                  last'.address, de_u64(last'.request).value)]_vars

\* a successful validate step has added a second binding to the map and
\* its validate response has been written
C13_Witness ==
    /\ last.op = "recv_validate_request"
    /\ last.result = "Success"
    /\ last.response = write_validate_response
    /\ Cardinality(DOMAIN address_to_timestamp_map) = 2
    /\ timestamp_digest_map # CacheMap_new

Truncated(request) == Len(request) < 8 \/ IsErr(de_bytes(Drop(request, 8)))

\* C20: a challenge request too short for a timestamp returns the decode
\* error, writes no response and changes no state; a validate request and
\* a disconnect request whose timestamp or digest is missing or cut short
\* return Invalid and false, and leave the address map, the cache and the
\* connections as they were.
C20_TruncatedInputChangesNothing ==
    [][/\ (last'.op = "recv_challenge_request" /\ Len(last'.request) < 8)
             => /\ last'.result = "Err"
                /\ last'.response = NoResponse
                /\ ~last'.signed
                /\ UNCHANGED <<hm_vars, connections, minted>>
       /\ (last'.op = "recv_validate_request" /\ Truncated(last'.request))
             => /\ last'.result = "Invalid"
                /\ last'.response = NoResponse
                /\ UNCHANGED <<hm_vars, connections>>
       /\ (last'.op = "verify_disconnect_request" /\ Truncated(last'.request))
             => /\ last'.result = "false"
                /\ UNCHANGED <<hm_vars, connections>>]_vars

\* a connected client's disconnect request arrived without the last byte
\* of its digest and was refused
C20_Witness ==
    /\ last.op = "verify_disconnect_request"
    /\ Len(last.request) = 17
    /\ Truncated(last.request)
    /\ last.result = "false"
    /\ last.address \in connections
    /\ HashMap_get(address_to_timestamp_map, last.address)
           = Some(de_u64(last.request).value)

\* the elements of a sequence
Range(seq) == {seq[i] : i \in 1..Len(seq)}

\* the messages the wire format can carry, and how a sender writes one
Messages ==
    {MessageContainer(kind, entities) :
        kind \in {0, 1}, entities \in {{}} \cup {{e} : e \in Entities}}
WriteMessage(message) ==
    IF message.entities = {} THEN <<message.kind, 0>>
    ELSE <<message.kind, 1, CHOOSE e \in message.entities : TRUE>>

\* a run: each message after a true continue bit, then a false continue bit
RECURSIVE WriteRun(_)
WriteRun(messages) ==
    IF messages = <<>> THEN <<0>>
    ELSE <<1>> \o WriteMessage(Head(messages)) \o WriteRun(Tail(messages))

\* the message sequences whose run fits a chunk
MessageSeqs == UNION {[1..n -> Messages] : n \in 0..(MaxChunkBits \div 3)}

IsPrefix(p, seq) == Len(p) <= Len(seq) /\ SubSeq(seq, 1, Len(p)) = p

\* the chunk ends, or a message in it ends, before a false continue bit
DecodeFails(chunk) ==
    \A messages \in MessageSeqs : ~IsPrefix(WriteRun(messages), chunk)

\* C15: the messages receive_messages has returned, followed by those
\* still queued, are the messages read so far, in arrival order with
\* duplicates kept; and a receive_messages call returns and leaves the
\* queue empty.
C15_DeliversWhatArrived ==
    /\ delivered \o incoming_messages = arrived
    /\ rlast.op = "receive_messages"
           => /\ rlast.result = "Ok"
              /\ incoming_messages = <<>>

\* C16: a message that refers to an entity, read while that entity does
\* not exist locally, is on the entity waitlist and has not been returned;
\* once its entities exist it is waiting, queued or returned, never lost.
C16_UnresolvedMessageParked ==
    \A message \in {m \in Range(arrived) : m.entities # {}} :
        IF message.entities \subseteq local_entities
        THEN message \in Range(entity_waitlist) \cup Range(incoming_messages)
                         \cup Range(delivered)
        ELSE /\ message \in Range(entity_waitlist)
             /\ message \notin Range(delivered)

\* C18: read_messages of a chunk that starts with a run returns Ok, has
\* handed the run's messages, in order and no others, to recv_message,
\* and has left in the reader everything after the run's false continue
\* bit; for a run without messages the queue is as it was.
C18_OneBooleanTerminatedRun ==
    [][\A messages \in MessageSeqs :
          (/\ rlast'.op = "read_messages"
           /\ IsPrefix(WriteRun(messages), rlast'.chunk))
          => /\ rlast'.result = "Ok"
             /\ rlast'.read = messages
             /\ rlast'.rest = Drop(rlast'.chunk, Len(WriteRun(messages)))
             /\ incoming_messages' = incoming_messages \o messages]_vars

\* C19: read_messages of a chunk that ends before its run does returns
\* the decode error and leaves the incoming queue as it was, whatever it
\* decoded before the failure.
C19_DecodeFailureDropsChunk ==
    [][(rlast'.op = "read_messages" /\ DecodeFails(rlast'.chunk))
          => /\ rlast'.result = "Err"
             /\ incoming_messages' = incoming_messages]_vars

\* the request line is a POST to the configured path
PostToPath(request) == request.line = RTC_URL_PATH \o HTTP_VERSION

\* the length a request's Content-Length header announces, if it has the
\* header and its value is a number
AnnouncedLength(request) ==
    IF \E name \in ContentLengthNames, n \in 0..MaxContentLength :
           request.content_length = name \o <<":", " ", Digits[n + 1]>>
    THEN Some(CHOOSE n \in 0..MaxContentLength :
                  \E name \in ContentLengthNames :
                      request.content_length = name \o <<":", " ", Digits[n + 1]>>)
    ELSE None

\* the request carries as many body bytes as it announces
CompleteBody(request) ==
    /\ AnnouncedLength(request).some
    /\ Len(request.body) >= AnnouncedLength(request).value

\* C17: a served POST to the configured path with a Content-Length header
\* and a complete body that the session endpoint accepted got the
\* endpoint's response with Access-Control-Allow-Origin: * and nothing
\* else; every other served request got the 404 response and nothing
\* else; and the endpoint was not asked when the request line is not a POST
\* to the configured path or the Content-Length header is missing.
C17_SessionEndpointContract ==
    connection.op = "serve" =>
        LET request == connection.request
            invoked == connection.session_request.some
            accepted == /\ PostToPath(request)
                        /\ CompleteBody(request)
                        /\ invoked
                        /\ connection.endpoint_result.ok
        IN  /\ accepted =>
                   /\ Len(connection.written) = 1
                   /\ connection.written[1].status
                          = connection.endpoint_result.resp.status
                   /\ connection.written[1].body
                          = connection.endpoint_result.resp.body
                   /\ connection.written[1].headers
                          = HeaderMap_insert(
                                connection.endpoint_result.resp.headers,
                                "access-control-allow-origin", "*")
            /\ ~accepted => connection.written = <<RESPONSE_BAD>>
            /\ (~PostToPath(request) \/ request.content_length = NoHeader)
                   => ~invoked

\* C21: the cache never holds more than CacheCapacity entries; the
\* timestamp of a challenge just answered is in the cache; and for every
\* timestamp, the cache write_challenge_response leaves holds the
\* timestamp when get_unchecked reads its digest, which is the digest
\* written to the response.
C21_CacheBoundedAndNeverMisses ==
    /\ Len(timestamp_digest_map) <= CacheCapacity
    /\ (last.op = "recv_challenge_request" /\ last.result = "Ok")
           => CacheMap_contains_key(timestamp_digest_map,
                                    de_u64(last.request).value)
    /\ \A t \in Timestamps :
           LET w == write_challenge_response(connection_hash_key,
                                             timestamp_digest_map, t)
           IN  /\ Len(w.timestamp_digest_map) <= CacheCapacity
               /\ CacheMap_contains_key(w.timestamp_digest_map, t)
               /\ ResponseDigest(w.writer)
                      = CacheMap_get_unchecked(w.timestamp_digest_map, t)

\* more timestamps were challenged than the cache holds: the cache is
\* full and an entry has been evicted
C21_Witness ==
    /\ last.op = "recv_challenge_request"
    /\ last.signed
    /\ Cardinality(minted) > CacheCapacity
    /\ Len(timestamp_digest_map) = CacheCapacity
    /\ minted \ CacheMap_keys(timestamp_digest_map) # {}

\* C22: a step that runs delete_user(a) leaves the map without an entry
\* for a, with every other address's entry as it was, and leaves the cache
\* alone; a second delete_user(a) would change nothing; while the map has
\* no entry for a, verify_disconnect_request for a connection at a is
\* false for every request; and an entry for a comes back only by a
\* successful validate request from a.
C22_DeleteUserFrame ==
    [][\A a \in Addresses :
          /\ DeletesUser(last', a)
                => /\ a \notin DOMAIN address_to_timestamp_map'
                   /\ \A b \in Addresses \ {a} :
                          HashMap_get(address_to_timestamp_map', b)
                              = HashMap_get(address_to_timestamp_map, b)
                   /\ timestamp_digest_map' = timestamp_digest_map
                   /\ delete_user(address_to_timestamp_map', a)
                          = address_to_timestamp_map'
          /\ a \notin DOMAIN address_to_timestamp_map'
                => \A request \in ValidateInputs(connection_hash_key, Timestamps) :
                       ~verify_disconnect_request(connection_hash_key',
                            address_to_timestamp_map', a, request)
          /\ (a \notin DOMAIN address_to_timestamp_map
               /\ a \in DOMAIN address_to_timestamp_map')
                => /\ last'.op = "recv_validate_request"
                   /\ last'.address = a
                   /\ last'.result = "Success"]_vars

\* the connection of 10.0.0.2 timed out while 10.0.0.99 stays bound and a
\* digest is cached
C22_Witness ==
    /\ last.op = "timeout"
    /\ last.address = "10.0.0.2"
    /\ "10.0.0.2" \notin DOMAIN address_to_timestamp_map
    /\ "10.0.0.99" \in DOMAIN address_to_timestamp_map
    /\ "10.0.0.99" \in connections
    /\ timestamp_digest_map # CacheMap_new

\* C23: a successful validate request from address a with timestamp t2
\* leaves a bound to t2 and to nothing else, whatever a was bound to; from
\* then on verify_disconnect_request for a's connection is true for the
\* pair of t2 and false for the still valid pair of any other timestamp;
\* and a disconnect request with a valid pair is honored exactly when its
\* timestamp is the one the connection's address is bound to.
C23_DuplicateAddressOverwrites ==
    [][/\ \A a \in Addresses :
              (/\ last'.op = "recv_validate_request"
               /\ last'.address = a
               /\ last'.result = "Success")
              => LET t2 == de_u64(last'.request).value
                 IN  /\ HashMap_get(address_to_timestamp_map', a) = Some(t2)
                     /\ \A t \in Timestamps :
                            verify_disconnect_request(connection_hash_key',
                                address_to_timestamp_map', a,
                                ValidateRequest(t, Digest(connection_hash_key', t),
                                                <<>>))
                            <=> t = t2
       /\ (/\ last'.op = "verify_disconnect_request"
           /\ last'.request \in ValidRequests(connection_hash_key))
              => (last'.result = "true"
                  <=> HashMap_get(address_to_timestamp_map, last'.address)
                         = Some(PairTimestamp(connection_hash_key,
                                              last'.request)))]_vars

\* the connected client 10.0.0.2 is bound to the second timestamp, and its
\* disconnect request with the pair minted for the first was refused
C23_Witness ==
    /\ last.op = "verify_disconnect_request"
    /\ last.address = "10.0.0.2"
    /\ last.request = ValidateRequest(FirstTimestamp,
                           Digest(connection_hash_key, FirstTimestamp), <<>>)
    /\ FirstTimestamp \in minted
    /\ last.result = "false"
    /\ "10.0.0.2" \in connections
    /\ HashMap_get(address_to_timestamp_map, "10.0.0.2")
           = Some(OtherTimestamp(FirstTimestamp))

\* the validate requests that carry timestamp t with the digest a challenge
\* response of the instance carries for it
AnsweredPairs(t) ==
    {ValidateRequest(t,
         ResponseDigest(write_challenge_response(connection_hash_key,
                            timestamp_digest_map, t).writer),
         auth) : auth \in Auths}

\* C24 as stated: for every timestamp once answered by a challenge
\* response, its (timestamp, digest) pair is accepted by
\* recv_validate_request and by verify_disconnect_request in every later
\* state, whatever the connection's address.
C24_AnsweredPairAlwaysAccepted ==
    \A t \in minted : \A request \in AnsweredPairs(t) : \A a \in Addresses :
        /\ recv_validate_request(connection_hash_key, address_to_timestamp_map,
                                 a, request).result = "Success"
        /\ verify_disconnect_request(connection_hash_key,
                                     address_to_timestamp_map, a, request)

\* C24: for every timestamp t once answered by a challenge response, in
\* the cache or evicted from it, timestamp_validate returns t for its
\* (timestamp, digest) pair, recv_validate_request returns Success for it
\* from every address, verify_disconnect_request is true for it exactly for
\* the connections whose address is bound to t, and a validate request that
\* was received with such a pair succeeded.
C24_ValidationIgnoresCache ==
    /\ \A t \in minted : \A request \in AnsweredPairs(t) : \A a \in Addresses :
           /\ timestamp_validate(connection_hash_key, request) = Some(t)
           /\ recv_validate_request(connection_hash_key,
                   address_to_timestamp_map, a, request).result = "Success"
           /\ verify_disconnect_request(connection_hash_key,
                   address_to_timestamp_map, a, request)
                  <=> Bound(address_to_timestamp_map, a, t)
    /\ (/\ last.op = "recv_validate_request"
        /\ \E t \in minted : last.request \in AnsweredPairs(t))
           => last.result = "Success"

\* a validate request with the pair of a timestamp whose cache entry was
\* evicted by the challenge for another timestamp has succeeded
C24_Witness ==
    /\ last.op = "recv_validate_request"
    /\ last.result = "Success"
    /\ \E t \in minted :
           /\ last.request \in AnsweredPairs(t)
           /\ ~CacheMap_contains_key(timestamp_digest_map, t)
           /\ timestamp_digest_map # CacheMap_new

\* the response serve writes for the answer resp of the session endpoint
EndpointResponse(resp) ==
    [resp EXCEPT !.headers =
        HeaderMap_insert(@, "access-control-allow-origin", "*")]

\* C25: every connection serve has handled got exactly one response, the
\* session endpoint's or the 404 response, and the stream was flushed and
\* closed after it; the session endpoint was invoked at most once, and its
\* response is the one written only if it was invoked and answered Ok.
C25_ExactlyOneResponse ==
    connection.op = "serve" =>
        /\ Len(connection.written) = 1
        /\ connection.written[1]
               \in {RESPONSE_BAD, EndpointResponse(connection.endpoint_result.resp)}
        /\ connection.written[1] # RESPONSE_BAD
               => connection.invoked = 1 /\ connection.endpoint_result.ok
        /\ connection.invoked <= 1
        /\ connection.closed

\* C26: a served POST to the configured path with a Content-Length header
\* announcing n and at least n bytes after the blank line had its body
\* handed to the session endpoint, and the body handed is the first n of
\* these bytes.
C26_BodyIsFirstNBytes ==
    (/\ connection.op = "serve"
     /\ connection.request.end = "body"
     /\ PostToPath(connection.request)
     /\ CompleteBody(connection.request))
    => /\ connection.invoked = 1
       /\ connection.body
              = Some(SubSeq(connection.request.body, 1,
                            AnnouncedLength(connection.request).value))

\* C27: whatever the point at which the client ended its stream (before
\* the request line, inside it, inside the headers, inside or after the
\* body), serve has left its loop, written a response and closed the
\* stream.
C27_EndOfStreamIsAnswered ==
    connection.op = "serve" =>
        /\ ~connection.panicked
        /\ Len(connection.written) >= 1
        /\ connection.closed

\* C28: receive never returns an error; it returns a token exactly when
\* the cell holds one, returns the token of the most recent send, and
\* leaves the cell empty; a send leaves its token in the cell whatever the
\* cell held; the cell holds a token exactly when a send has happened
\* since the last receive that returned one; and no send has its token
\* returned twice, whichever clones the calls were made on.
C28_IdentitySlot ==
    [][/\ ilast'.op = "receive"
          => /\ ilast'.result.ok
             /\ ilast'.result.value.some <=> id_cell.some
             /\ ~id_cell'.some
             /\ ilast'.result.value.some
                    => /\ id_sent # <<>>
                       /\ ilast'.result.value.value = id_sent[Len(id_sent)]
                       /\ id_cell.value = id_sent[Len(id_sent)]
       /\ ilast'.op = "send"
          => /\ id_cell'.some
             /\ id_cell'.value = ilast'.id_token.value
             /\ id_cell'.value = id_sent'[Len(id_sent')]
       /\ id_cell'.some
          <=> Len(id_sent')
                 > (IF id_received' = <<>> THEN 0
                    ELSE id_received'[Len(id_received')].sends)
       /\ \A i, j \in 1..Len(id_received') :
              i < j => id_received'[i].sends < id_received'[j].sends
       /\ \A i \in 1..Len(id_received') :
              id_received'[i].id_token = id_sent'[id_received'[i].sends]]_vars

\* a token was overwritten by a second send before it was received, one
\* clone then received the second token, and the other clone found the
\* cell empty
C28_Witness ==
    /\ Len(id_sent) = 2
    /\ id_sent[1] # id_sent[2]
    /\ Len(id_received) = 1
    /\ id_received[1].id_token = id_sent[2]
    /\ ilast.op = "receive"
    /\ ilast.clone # id_received[1].clone
    /\ ilast.result.ok
    /\ ~ilast.result.value.some

\* C29: receive never returns an error; it returns None exactly when the
\* queue is empty, and otherwise the payload at the front of the queue,
\* which it removes and keeps as the last payload of the clone it was
\* called on; and the payloads returned so far, on whichever clones,
\* followed by the payloads still queued are the payloads pushed, in the
\* order they were pushed.
C29_PacketFifoExactlyOnce ==
    [][/\ plast'.op = "receive"
          => /\ plast'.result.ok
             /\ ~plast'.result.value.some <=> message_queue = <<>>
             /\ plast'.result.value.some
                    => /\ plast'.result.value.value = Head(message_queue)
                       /\ message_queue' = Tail(message_queue)
                       /\ received_payloads'
                              = Append(received_payloads, Head(message_queue))
                       /\ last_payload'[plast'.clone].some
                       /\ last_payload'[plast'.clone].value
                              = Head(message_queue)
             /\ ~plast'.result.value.some
                    => UNCHANGED <<message_queue, received_payloads,
                                   last_payload>>
       /\ received_payloads' \o message_queue' = pushed']_vars

\* two different payloads were pushed and returned in their order, one by
\* each clone, a third is still queued, and the last call returned the
\* second
C29_Witness ==
    /\ Len(pushed) = 3
    /\ pushed[1] # pushed[2]
    /\ received_payloads = SubSeq(pushed, 1, 2)
    /\ message_queue = <<pushed[3]>>
    /\ plast.op = "receive"
    /\ plast.result.value.some
    /\ \E c \in Clones :
           /\ c # plast.clone
           /\ last_payload[c].some
           /\ last_payload[c].value = pushed[1]
    /\ last_payload[plast.clone].value = pushed[2]

=============================================================================
